---------------------------- MODULE Spec2Model ----------------------------
(***************************************************************************)
(* A model of timetable (src/src/main.rs): the HTML form extractor         *)
(* (get_form_fields), the timetable scraper (parse_timetable) and the      *)
(* sequential run of main (auth, parse_sessions_page, get_course_details,  *)
(* parse_timetable, season selection, rendering, logout).                  *)
(*                                                                         *)
(* Rust's Option<T> is a sequence of length at most one: <<>> is None and  *)
(* <<x>> is Some(x).  A HashMap is a function on its key set.              *)
(***************************************************************************)
EXTENDS Integers, Sequences, FiniteSets, TLC

VARIABLES
  \* parse_timetable
  page_table,   \* the element the table selector finds: None, or the table's rows (raw cells)
  data,         \* Vec<Vec<String>>: the trimmed cell texts of every row
  idx,          \* number of rows of data the loop has consumed (the header included)
  course,       \* the carried course label
  format,       \* the carried format label
  courses,      \* CourseData under construction
  ppc,          \* position in parse_timetable: "idle", "select", "loop", "done", "panic"
  \* get_form_fields
  doc,          \* the document: its form and input elements in document order
  form_result,  \* what get_form_fields gave
  fpc,          \* position: "idle", "call", "returned", "panic"
  \* main
  pc,            \* the next step of main, "exit" once the process has ended
  outcome,       \* "running"; "ok": main returned Ok(()); "err": main returned Err; "panic"
  log,           \* history: the steps begun and ended, the requests sent and answered
  sent,          \* history: the requests handed to the client, with their forms
  json,          \* args.json
  login_fields,  \* auth's login_fields
  login_resp_content, \* auth: the text of the answer to the login POST, None before
  authenticated, \* what auth returned: None before it returns
  sessions_data, \* what parse_sessions_page returned
  selection,     \* the chosen term
  next_form,     \* get_course_details: the form extracted from the first answer
  details_doc,   \* the report page: the element its table selector finds
  course_data,   \* what parse_timetable returned
  seasons,       \* the season menu
  season,        \* the chosen season
  printed,       \* the course entries written to standard output: None before
  login_document,  \* auth: the elements of the page the first GET gave, None before
  sessions_doc,    \* parse_sessions_page: the page the second GET gave, None before
  session_summary  \* get_course_details: the elements of the first answer, None before

parseVars == <<page_table, data, idx, course, format, courses, ppc>>
formVars == <<doc, form_result, fpc>>
runVars ==
  <<pc, outcome, log, sent, json, login_fields, login_resp_content, authenticated,
    sessions_data,
    selection, next_form, details_doc, course_data, seasons, season, printed,
    login_document, sessions_doc, session_summary>>
pagesVars == <<login_document, sessions_doc, session_summary>>
vars == <<parseVars, formVars, runVars>>

-----------------------------------------------------------------------------
(* Bounds of the model *)

MaxDataRows == 3
MaxDocLen == 3

-----------------------------------------------------------------------------
(* Generic helpers *)

None == <<>>
Some(x) == <<x>>

EmptyMap == [k \in {} |-> <<>>]

MapInsert(m, k, v) == [x \in DOMAIN m \cup {k} |-> IF x = k THEN v ELSE m[x]]

SeqsUpTo(S, n) == UNION {[1..k -> S] : k \in 0..n}

Max(S) == CHOOSE x \in S : \A y \in S : y <= x

Min(S) == CHOOSE x \in S : \A y \in S : x <= y

Last(s) == s[Len(s)]


-----------------------------------------------------------------------------
(* parse_timetable: the inputs *)

\* A cell is the sequence of its text nodes; a row is the sequence of its td cells.
Cell(s) == <<s>>
Blank == <<>>

RowLecture == <<Cell("CS101"), Cell("Lecture"), Cell("Mon 10:00"), Cell("50min")>>
RowLab == <<Cell(""), Cell(" Lab "), Cell("\tTue 14:00\n"), Cell("80min")>>
RowNewCourse == <<Cell("CS102"), Blank, Cell("Wed 9:00"), Cell("50min")>>
RowContinuation == <<Blank, Cell(" "), <<"Thu ", "11:00">>, Cell("50min")>>
RowNoDayTime == <<Cell("CS102"), Cell("Lecture"), Cell(" "), Cell("50min")>>
RowNoDuration == <<Cell("CS101"), Cell("Tutorial"), Cell("Mon 10:00"), Blank>>
RowThreeCells == <<Cell("CS102"), Cell("Tutorial"), Cell("Fri 9:00")>>
RowFiveCells == <<Cell("CS101"), Cell("Lecture"), Cell("Fri 9:00"), Cell("50min"), Cell("Room 1")>>
RowNoCells == <<>>

\* The rows a table may hold below its first row
DataRows ==
  {RowLecture, RowLab, RowNewCourse, RowContinuation, RowNoDayTime,
   RowNoDuration, RowThreeCells, RowFiveCells}

\* The first rows a table may have: th cells only (no td), four td cells with
\* text, too few td cells
HeaderRows == {RowNoCells, RowLecture, RowThreeCells}

\* A table: no row at all, or a first row and up to MaxDataRows rows below it
Tables ==
  {<<>>} \cup {<<h>> \o t : h \in HeaderRows, t \in SeqsUpTo(DataRows, MaxDataRows)}

Whitespace == {" ", "\t", "\n", "\r", "\f"}

NonWhitespace(t) == {i \in 1..Len(t) : SubSeq(t, i, i) \notin Whitespace}

\* str::trim: the text without its leading and trailing whitespace
Trim(t) ==
  IF NonWhitespace(t) = {} THEN ""
  ELSE SubSeq(t, Min(NonWhitespace(t)), Max(NonWhitespace(t)))

RECURSIVE TrimConcat(_)
TrimConcat(nodes) ==
  IF nodes = <<>> THEN "" ELSE Trim(Head(nodes)) \o TrimConcat(Tail(nodes))

select_cells(tr) == [i \in 1..Len(tr) |-> TrimConcat(tr[i])]

-----------------------------------------------------------------------------
(* parse_timetable: the loop body *)

\* Column k of the source (0-based) is row[k + 1] here.
NewCourseTime(row) == [day_time |-> row[3], duration |-> row[4]]

\* RowStep with a defect: labels read before the skip test; the format reset
\* with the course; a row filed under its own cells
RowStepLabelsFirst(st, row) ==
  LET c == IF Len(row) >= 1 /\ row[1] # "" THEN row[1] ELSE st.course
      f == IF Len(row) >= 2 /\ row[2] # "" THEN row[2] ELSE st.format
  IN  IF Len(row) < 4 \/ row[3] = "" \/ row[4] = ""
      THEN [st EXCEPT !.course = c, !.format = f]
      ELSE LET cs == IF c \in DOMAIN st.courses THEN st.courses
                     ELSE MapInsert(st.courses, c, EmptyMap)
               cd == IF f \in DOMAIN cs[c] THEN cs[c] ELSE MapInsert(cs[c], f, <<>>)
           IN  [course |-> c, format |-> f,
                courses |-> [cs EXCEPT ![c] =
                               [cd EXCEPT ![f] = Append(cd[f], NewCourseTime(row))]]]

RowStepResetFormat(st, row) ==
  IF Len(row) < 4 THEN st
  ELSE IF row[3] = "" \/ row[4] = "" THEN st
  ELSE LET c == IF row[1] # "" THEN row[1] ELSE st.course
           f == IF row[2] # "" THEN row[2]
                ELSE IF c # st.course THEN "" ELSE st.format
           cs == IF c \in DOMAIN st.courses THEN st.courses
                 ELSE MapInsert(st.courses, c, EmptyMap)
           cd == IF f \in DOMAIN cs[c] THEN cs[c] ELSE MapInsert(cs[c], f, <<>>)
       IN  [course |-> c, format |-> f,
            courses |-> [cs EXCEPT ![c] =
                           [cd EXCEPT ![f] = Append(cd[f], NewCourseTime(row))]]]

RowStepFileUnderRowLabels(st, row) ==
  IF Len(row) < 4 THEN st
  ELSE IF row[3] = "" \/ row[4] = "" THEN st
  ELSE LET c == IF row[1] # "" THEN row[1] ELSE st.course
           f == IF row[2] # "" THEN row[2] ELSE st.format
           cs == IF row[1] \in DOMAIN st.courses THEN st.courses
                 ELSE MapInsert(st.courses, row[1], EmptyMap)
           cd == IF row[2] \in DOMAIN cs[row[1]] THEN cs[row[1]]
                 ELSE MapInsert(cs[row[1]], row[2], <<>>)
       IN  [course |-> c, format |-> f,
            courses |-> [cs EXCEPT ![row[1]] =
                           [cd EXCEPT ![row[2]] = Append(cd[row[2]], NewCourseTime(row))]]]

\* RowStep with a defect: a row is skipped only when both columns are empty
RowStepSkipBothEmpty(st, row) ==
  IF Len(row) < 4 THEN st
  ELSE IF row[3] = "" /\ row[4] = "" THEN st
  ELSE LET c == IF row[1] # "" THEN row[1] ELSE st.course
           f == IF row[2] # "" THEN row[2] ELSE st.format
           cs == IF c \in DOMAIN st.courses THEN st.courses
                 ELSE MapInsert(st.courses, c, EmptyMap)
           cd == IF f \in DOMAIN cs[c] THEN cs[c] ELSE MapInsert(cs[c], f, <<>>)
       IN  [course |-> c, format |-> f,
            courses |-> [cs EXCEPT ![c] =
                           [cd EXCEPT ![f] = Append(cd[f], NewCourseTime(row))]]]

\* RowStep with a defect: a row is left out while no course label is carried
RowStepNeedsCourse(st, row) ==
  IF Len(row) < 4 THEN st
  ELSE IF row[3] = "" \/ row[4] = "" THEN st
  ELSE LET c == IF row[1] # "" THEN row[1] ELSE st.course
           f == IF row[2] # "" THEN row[2] ELSE st.format
           cs == IF c \in DOMAIN st.courses THEN st.courses
                 ELSE MapInsert(st.courses, c, EmptyMap)
           cd == IF f \in DOMAIN cs[c] THEN cs[c] ELSE MapInsert(cs[c], f, <<>>)
       IN  IF c = "" THEN st
           ELSE [course |-> c, format |-> f,
                 courses |-> [cs EXCEPT ![c] =
                                [cd EXCEPT ![f] = Append(cd[f], NewCourseTime(row))]]]

\* RowStep with a defect: the new CourseTime is put in front of the sequence
RowStepPrepend(st, row) ==
  IF Len(row) < 4 THEN st
  ELSE IF row[3] = "" \/ row[4] = "" THEN st
  ELSE LET c == IF row[1] # "" THEN row[1] ELSE st.course
           f == IF row[2] # "" THEN row[2] ELSE st.format
           cs == IF c \in DOMAIN st.courses THEN st.courses
                 ELSE MapInsert(st.courses, c, EmptyMap)
           cd == IF f \in DOMAIN cs[c] THEN cs[c] ELSE MapInsert(cs[c], f, <<>>)
       IN  [course |-> c, format |-> f,
            courses |-> [cs EXCEPT ![c] =
                           [cd EXCEPT ![f] = <<NewCourseTime(row)>> \o cd[f]]]]

\* One iteration of the for loop: st is [course, format, courses].
RowStep(st, row) ==
  IF Len(row) < 4 THEN st
  ELSE IF row[3] = "" \/ row[4] = "" THEN st
  ELSE LET c == IF row[1] # "" THEN row[1] ELSE st.course
           f == IF row[2] # "" THEN row[2] ELSE st.format
           cs == IF c \in DOMAIN st.courses THEN st.courses
                 ELSE MapInsert(st.courses, c, EmptyMap)
           cd == IF f \in DOMAIN cs[c] THEN cs[c] ELSE MapInsert(cs[c], f, <<>>)
       IN  [course |-> c, format |-> f,
            courses |-> [cs EXCEPT ![c] =
                           [cd EXCEPT ![f] = Append(cd[f], NewCourseTime(row))]]]

LoopStart == [course |-> "", format |-> "", courses |-> EmptyMap]

\* The state of the loop after the rows d[from], ..., d[Len(d)], started in st
RECURSIVE FoldRows(_, _, _)
FoldRows(st, d, from) ==
  IF from > Len(d) THEN st ELSE FoldRows(RowStep(st, d[from]), d, from + 1)

\* parse_timetable as a function of the page's table element
parse_timetable(tbl) ==
  IF tbl = None THEN [kind |-> "panic", courses |-> EmptyMap]
  ELSE LET d == [r \in 1..Len(tbl[1]) |-> select_cells(tbl[1][r])]
       IN  [kind |-> "ok", courses |-> FoldRows(LoopStart, d, 2).courses]

-----------------------------------------------------------------------------
(* parse_timetable: the steps *)

InitParse ==
  /\ page_table \in {None} \cup {Some(t) : t \in Tables}
  /\ data = <<>>
  /\ idx = 0
  /\ course = ""
  /\ format = ""
  /\ courses = EmptyMap
  /\ ppc = "select"

IdleParse ==
  /\ page_table = None
  /\ data = <<>>
  /\ idx = 0
  /\ course = ""
  /\ format = ""
  /\ courses = EmptyMap
  /\ ppc = "idle"

\* ParseCollect with a defect: the loop starts at the first row
ParseCollectNoSkip ==
  /\ ppc = "select"
  /\ \/ /\ page_table = None
        /\ ppc' = "panic"
        /\ UNCHANGED <<data, idx, course, format, courses>>
     \/ /\ page_table # None
        /\ data' = [r \in 1..Len(page_table[1]) |-> select_cells(page_table[1][r])]
        /\ idx' = 0
        /\ course' = ""
        /\ format' = ""
        /\ courses' = EmptyMap
        /\ ppc' = "loop"
  /\ UNCHANGED <<page_table, formVars, runVars>>

\* Locate the table, collect the cell texts of its rows, skip the header
ParseCollect ==
  /\ ppc = "select"
  /\ \/ /\ page_table = None
        /\ ppc' = "panic"
        /\ UNCHANGED <<data, idx, course, format, courses>>
     \/ /\ page_table # None
        /\ data' = [r \in 1..Len(page_table[1]) |-> select_cells(page_table[1][r])]
        /\ idx' = 1
        /\ course' = ""
        /\ format' = ""
        /\ courses' = EmptyMap
        /\ ppc' = "loop"
  /\ UNCHANGED <<page_table, formVars, runVars>>

ParseRow ==
  /\ ppc = "loop"
  /\ idx < Len(data)
  /\ LET st == RowStep([course |-> course, format |-> format, courses |-> courses],
                       data[idx + 1])
     IN  /\ course' = st.course
         /\ format' = st.format
         /\ courses' = st.courses
  /\ idx' = idx + 1
  /\ UNCHANGED <<page_table, data, ppc, formVars, runVars>>

ParseReturn ==
  /\ ppc = "loop"
  /\ idx >= Len(data)
  /\ ppc' = "done"
  /\ UNCHANGED <<page_table, data, idx, course, format, courses, formVars, runVars>>

NextParse == ParseCollect \/ ParseRow \/ ParseReturn

-----------------------------------------------------------------------------
(* get_form_fields: the inputs *)

\* An element of a document: a form (with the inputs it contains) or an input.
\* Attributes are Options: None when the element has no such attribute.
Input(type, name, value) ==
  [tag |-> "input", type |-> type, name |-> name, value |-> value,
   action |-> None, children |-> <<>>]

Form(action, children) ==
  [tag |-> "form", type |-> None, name |-> None, value |-> None,
   action |-> action, children |-> children]

HiddenA1 == Input(Some("hidden"), Some("a"), Some("1"))
HiddenA2 == Input(Some("hidden"), Some("a"), Some("2"))
SubmitB2 == Input(Some("submit"), Some("b"), Some("2"))
TextC3 == Input(Some("text"), Some("c"), Some("3"))
TextBare == Input(Some("text"), None, None)
HiddenNoName == Input(Some("hidden"), None, Some("1"))
SubmitNoValue == Input(Some("submit"), Some("d"), None)

Nodes ==
  {Form(Some("/T"), <<>>), Form(Some("/T"), <<HiddenA1, SubmitB2>>),
   Form(Some("/decoy"), <<TextC3>>), Form(Some("/decoy"), <<HiddenA2>>),
   Form(Some("/decoy"), <<SubmitNoValue>>), Form(None, <<>>),
   HiddenA1, TextBare, HiddenNoName}

Docs == SeqsUpTo(Nodes, MaxDocLen)

-----------------------------------------------------------------------------
(* get_form_fields *)

\* The elements of a document in document order: each node, then its children
RECURSIVE Elements(_)
Elements(d) ==
  IF d = <<>> THEN <<>>
  ELSE <<Head(d)>> \o Head(d).children \o Elements(Tail(d))

IsForm(e) == e.tag = "form"

\* The selector input[type='submit'],input[type='hidden']
IsSubmitOrHidden(e) ==
  e.tag = "input" /\ e.type \in {Some("submit"), Some("hidden")}

\* InsertInputs with a defect: a name that is already present keeps its value
RECURSIVE InsertInputsKeepFirst(_, _)
InsertInputsKeepFirst(st, es) ==
  IF es = <<>> \/ st.panic THEN st
  ELSE LET e == Head(es)
       IN  IF ~IsSubmitOrHidden(e) THEN InsertInputsKeepFirst(st, Tail(es))
           ELSE IF e.name = None \/ e.value = None
                THEN [st EXCEPT !.panic = TRUE]
                ELSE IF e.name[1] \in DOMAIN st.form_data
                     THEN InsertInputsKeepFirst(st, Tail(es))
                     ELSE InsertInputsKeepFirst(
                            [st EXCEPT !.form_data = MapInsert(@, e.name[1], e.value[1])],
                            Tail(es))

\* for_each over the selected inputs: st is [panic, form_data]
RECURSIVE InsertInputs(_, _)
InsertInputs(st, es) ==
  IF es = <<>> \/ st.panic THEN st
  ELSE LET e == Head(es)
       IN  IF ~IsSubmitOrHidden(e) THEN InsertInputs(st, Tail(es))
           ELSE IF e.name = None \/ e.value = None
                THEN [st EXCEPT !.panic = TRUE]
                ELSE InsertInputs(
                       [st EXCEPT !.form_data = MapInsert(@, e.name[1], e.value[1])],
                       Tail(es))

Panicked == [kind |-> "panic", form_url |-> "", form_data |-> EmptyMap]

\* get_form_fields with a defect: the first form's action is taken
get_form_fields_first_form(d) ==
  LET es == Elements(d)
      forms == {i \in 1..Len(es) : IsForm(es[i])}
      first == CHOOSE i \in forms : \A j \in forms : i <= j
      ins == InsertInputs([panic |-> FALSE, form_data |-> EmptyMap], es)
  IN  IF forms = {} THEN Panicked
      ELSE IF es[first].action = None THEN Panicked
      ELSE IF ins.panic THEN Panicked
      ELSE [kind |-> "ok", form_url |-> es[first].action[1], form_data |-> ins.form_data]

get_form_fields(d) ==
  LET es == Elements(d)
      forms == {i \in 1..Len(es) : IsForm(es[i])}
      ins == InsertInputs([panic |-> FALSE, form_data |-> EmptyMap], es)
  IN  IF forms = {} THEN Panicked
      ELSE IF es[Max(forms)].action = None THEN Panicked
      ELSE IF ins.panic THEN Panicked
      ELSE [kind |-> "ok", form_url |-> es[Max(forms)].action[1],
            form_data |-> ins.form_data]

-----------------------------------------------------------------------------
(* get_form_fields: the steps *)

NoResult == [kind |-> "none", form_url |-> "", form_data |-> EmptyMap]

InitForm ==
  /\ doc \in Docs
  /\ form_result = NoResult
  /\ fpc = "call"

IdleForm ==
  /\ doc = <<>>
  /\ form_result = NoResult
  /\ fpc = "idle"

FormCall ==
  /\ fpc = "call"
  /\ form_result' = get_form_fields(doc)
  /\ fpc' = IF form_result'.kind = "ok" THEN "returned" ELSE "panic"
  /\ UNCHANGED <<doc, parseVars, runVars>>

NextForm == FormCall

-----------------------------------------------------------------------------
(* main: the inputs *)

REM_URL == "https://wrem.sis.yorku.ca/Apps/WebObjects/REM.woa/wa/DirectAction/rem"
LOGIN_PAGE == "https://passportyork.yorku.ca/ppylogin/ppylogin"
LOGOUT_PAGE == "https://passportyork.yorku.ca/ppylogin/ppylogout"

Username == "user"
Password == "secret"

ConfirmationPhrase == "You have successfully authenticated"

\* The login pages the first GET may be answered with (their elements)
HiddenToken == Input(Some("hidden"), Some("token"), Some("t0"))
HiddenMli == Input(Some("hidden"), Some("mli"), Some("other"))

LoginPages ==
  {<<Form(Some("/ppylogin"), <<HiddenToken>>)>>,
   <<Form(Some("/ppylogin"), <<HiddenToken, HiddenMli, SubmitB2>>)>>,
   <<Form(Some("/ppylogin"), <<HiddenNoName>>)>>}

\* The texts the login POST may be answered with
LoginAnswers ==
  {"<p>You have successfully authenticated.</p>", "<p>Login failed</p>", ""}

\* The pages the second GET may be answered with: elements and first select
Select(name, options) == [name |-> name, options |-> options]

SessionsForm ==
  Form(Some("/rem/select"),
       <<Input(Some("hidden"), Some("wosid"), Some("s1")),
         Input(Some("submit"), Some("go"), Some("Continue"))>>)

SessionsFormOwnSession ==
  Form(Some("/rem/select"),
       <<Input(Some("hidden"), Some("session"), Some("old")),
         Input(Some("submit"), Some("go"), Some("Continue"))>>)

TermOptions == <<"Choose a session", "FW 2024", "SU 2025">>

SessionsPages ==
  {[elems |-> <<SessionsForm>>, select |-> Some(Select(Some("session"), TermOptions))],
   [elems |-> <<Form(Some("/decoy"), <<TextC3>>), SessionsFormOwnSession>>,
    select |-> Some(Select(Some("session"), TermOptions))],
   [elems |-> <<SessionsForm>>, select |-> Some(Select(Some("session"), <<"Choose a session">>))],
   [elems |-> <<SessionsForm>>, select |-> Some(Select(Some("session"), <<>>))],
   [elems |-> <<SessionsForm>>, select |-> Some(Select(None, TermOptions))],
   [elems |-> <<SessionsForm>>, select |-> None],
   [elems |-> <<>>, select |-> Some(Select(Some("session"), TermOptions))]}

\* The summary pages the first POST may be answered with (their elements)
SummaryPages ==
  {<<Form(Some("/rem/report"),
          <<Input(Some("hidden"), Some("wosid"), Some("s2")),
            Input(Some("submit"), Some("show"), Some("Report"))>>)>>,
   <<Form(None, <<>>)>>}

\* The report pages the second POST may be answered with: what the table
\* selector finds in them
RowFall == <<Cell("Fall A"), Cell("LECT"), Cell("Mon 10:00"), Cell("50min")>>
RowWinter == <<Cell("Winter B"), Cell("LAB"), Cell("Tue 14:00"), Cell("80min")>>
RowFallback == <<Cell("Fallback C"), Blank, Cell("Wed 9:00"), Cell("50min")>>

ReportTables ==
  {None,
   Some(<<RowNoCells>>),
   Some(<<RowNoCells, RowFall, RowWinter>>),
   Some(<<RowNoCells, RowFall, RowFallback>>),
   Some(<<RowNoCells, RowContinuation, RowWinter>>)}

-----------------------------------------------------------------------------
(* main: helpers *)

\* str::contains
Contains(text, pattern) ==
  \E i \in 1..(Len(text) + 1) :
    /\ i + Len(pattern) - 1 <= Len(text)
    /\ SubSeq(text, i, i + Len(pattern) - 1) = pattern

\* str::starts_with
StartsWith(text, prefix) ==
  Len(prefix) <= Len(text) /\ SubSeq(text, 1, Len(prefix)) = prefix

\* split_ascii_whitespace().next()
FirstToken(k) ==
  IF NonWhitespace(k) = {} THEN None
  ELSE LET a == Min(NonWhitespace(k))
           b == Min({j \in a..Len(k) : j = Len(k) \/ (j + 1) \notin NonWhitespace(k)})
       IN  Some(SubSeq(k, a, b))

\* The orders in which a HashSet may be iterated
Orders(S) ==
  {f \in [1..Cardinality(S) -> S] : \A i, j \in 1..Cardinality(S) : f[i] = f[j] => i = j}

\* The selector input[type='hidden']
IsHidden(e) == e.tag = "input" /\ e.type = Some("hidden")

\* InsertHidden with a defect: a key the map already holds keeps its value
RECURSIVE InsertHiddenKeepExisting(_, _)
InsertHiddenKeepExisting(st, es) ==
  IF es = <<>> \/ st.panic THEN st
  ELSE LET e == Head(es)
       IN  IF ~(e.tag = "input" /\ e.type = Some("hidden"))
           THEN InsertHiddenKeepExisting(st, Tail(es))
           ELSE IF e.name = None \/ e.value = None
                THEN [st EXCEPT !.panic = TRUE]
                ELSE InsertHiddenKeepExisting(
                       [st EXCEPT !.form_data =
                          IF e.name[1] \in DOMAIN @ THEN @
                          ELSE MapInsert(@, e.name[1], e.value[1])],
                       Tail(es))

\* auth's for_each over the hidden inputs: st is [panic, form_data]
RECURSIVE InsertHidden(_, _)
InsertHidden(st, es) ==
  IF es = <<>> \/ st.panic THEN st
  ELSE LET e == Head(es)
       IN  IF ~IsHidden(e) THEN InsertHidden(st, Tail(es))
           ELSE IF e.name = None \/ e.value = None
                THEN [st EXCEPT !.panic = TRUE]
                ELSE InsertHidden(
                       [st EXCEPT !.form_data = MapInsert(@, e.name[1], e.value[1])],
                       Tail(es))

SeededFields ==
  ("mli" :> Username) @@ ("password" :> Password) @@ ("dologin" :> "Login")

\* History: events of the log and requests
Begin(step) == [ev |-> "begin", of |-> step]
End(step) == [ev |-> "end", of |-> step]
Send(req) == [ev |-> "send", of |-> req]
Recv(req) == [ev |-> "recv", of |-> req]
Extract(req) == [ev |-> "extract", of |-> req]
Fail(req) == [ev |-> "fail", of |-> req]

Request(name, method, url, form) ==
  [name |-> name, method |-> method, url |-> url, form |-> form]

NoSessionsData ==
  [sessions |-> <<>>, form_url |-> "", submit_map |-> EmptyMap, session_form_name |-> ""]

NoForm == [form_url |-> "", form_data |-> EmptyMap]

-----------------------------------------------------------------------------
(* main: the steps *)

InitRun ==
  /\ pc = "auth_get"
  /\ outcome = "running"
  /\ log = <<>>
  /\ sent = <<>>
  /\ json \in BOOLEAN
  /\ login_fields = EmptyMap
  /\ login_resp_content = None
  /\ authenticated = None
  /\ sessions_data = NoSessionsData
  /\ selection = 0
  /\ next_form = NoForm
  /\ details_doc = None
  /\ course_data = EmptyMap
  /\ seasons = <<>>
  /\ season = ""
  /\ printed = None
  /\ login_document = None
  /\ sessions_doc = None
  /\ session_summary = None

IdleRun ==
  /\ pc = "idle"
  /\ outcome = "running"
  /\ log = <<>>
  /\ sent = <<>>
  /\ json = FALSE
  /\ login_fields = EmptyMap
  /\ login_resp_content = None
  /\ authenticated = None
  /\ sessions_data = NoSessionsData
  /\ selection = 0
  /\ next_form = NoForm
  /\ details_doc = None
  /\ course_data = EmptyMap
  /\ seasons = <<>>
  /\ season = ""
  /\ printed = None
  /\ login_document = None
  /\ sessions_doc = None
  /\ session_summary = None

\* auth, to the login POST: the GET of the landing page and the login fields
AuthGet ==
  /\ pc = "auth_get"
  /\ sent' = Append(sent, Request("auth_get", "GET", REM_URL, EmptyMap))
  /\ \/ /\ log' = log \o <<Begin("authenticate"), Send("auth_get"), Fail("auth_get")>>
        /\ outcome' = "err"
        /\ pc' = "exit"
        /\ UNCHANGED <<login_fields, login_document>>
     \/ \E p \in LoginPages :
          LET ins == InsertHidden([panic |-> FALSE, form_data |-> SeededFields],
                                  Elements(p))
          IN  /\ log' = log \o <<Begin("authenticate"), Send("auth_get"), Recv("auth_get")>>
              /\ login_document' = Some(p)
              /\ \/ /\ ins.panic
                    /\ outcome' = "panic"
                    /\ pc' = "exit"
                    /\ UNCHANGED login_fields
                 \/ /\ ~ins.panic
                    /\ login_fields' = ins.form_data
                    /\ pc' = "login_post"
                    /\ UNCHANGED outcome
  /\ UNCHANGED <<json, login_resp_content, authenticated, sessions_data, selection,
                 next_form, details_doc, course_data, seasons, season, printed,
                 sessions_doc, session_summary, parseVars, formVars>>

\* auth, from the login POST: the answer is searched for the confirmation
AuthPost ==
  /\ pc = "login_post"
  /\ sent' = Append(sent, Request("login_post", "POST", LOGIN_PAGE, login_fields))
  /\ \/ /\ log' = log \o <<Send("login_post"), Fail("login_post")>>
        /\ outcome' = "err"
        /\ pc' = "exit"
        /\ UNCHANGED <<login_resp_content, authenticated>>
     \/ \E text \in LoginAnswers :
          /\ log' = log \o <<Send("login_post"), Recv("login_post"), End("authenticate")>>
          /\ login_resp_content' = Some(text)
          /\ authenticated' = Some(Contains(text, ConfirmationPhrase))
          /\ pc' = "check_auth"
          /\ UNCHANGED outcome
  /\ UNCHANGED <<json, login_fields, sessions_data, selection, next_form, details_doc,
                 course_data, seasons, season, printed, pagesVars, parseVars, formVars>>

\* CheckAuthenticated with a defect: what auth returned is not looked at
CheckAuthenticatedIgnored ==
  /\ pc = "check_auth"
  /\ pc' = "sessions_get"
  /\ UNCHANGED <<outcome, log, sent, json, login_fields, login_resp_content,
                 authenticated, sessions_data, selection, next_form, details_doc,
                 course_data, seasons, season, printed, pagesVars, parseVars, formVars>>

\* main: if !authenticated { panic!(..) }
CheckAuthenticated ==
  /\ pc = "check_auth"
  /\ \/ /\ authenticated = Some(FALSE)
        /\ outcome' = "panic"
        /\ pc' = "exit"
     \/ /\ authenticated = Some(TRUE)
        /\ pc' = "sessions_get"
        /\ UNCHANGED outcome
  /\ UNCHANGED <<log, sent, json, login_fields, login_resp_content, authenticated,
                 sessions_data, selection, next_form, details_doc, course_data,
                 seasons, season, printed, pagesVars, parseVars, formVars>>

\* ParseSessionsPage with a defect: the GET is sent again after a transport error
ParseSessionsPageRetry ==
  /\ pc = "sessions_get"
  /\ Len(sent) < 4
  /\ sent' = Append(sent, Request("sessions_get", "GET", REM_URL, EmptyMap))
  /\ log' = log \o <<Begin("list_sessions"), Send("sessions_get"), Fail("sessions_get")>>
  /\ UNCHANGED <<pc, outcome, json, login_fields, login_resp_content, authenticated,
                 sessions_data, selection, next_form, details_doc, course_data,
                 seasons, season, printed, pagesVars, parseVars, formVars>>

\* parse_sessions_page
ParseSessionsPage ==
  /\ pc = "sessions_get"
  /\ sent' = Append(sent, Request("sessions_get", "GET", REM_URL, EmptyMap))
  /\ \/ /\ log' = log \o <<Begin("list_sessions"), Send("sessions_get"), Fail("sessions_get")>>
        /\ outcome' = "err"
        /\ pc' = "exit"
        /\ UNCHANGED <<sessions_data, sessions_doc>>
     \/ \E p \in SessionsPages :
          LET form == get_form_fields(p.elems)
          IN  /\ sessions_doc' = Some(p)
              /\ \/ /\ \/ p.select = None
                       \/ p.select # None /\ p.select[1].name = None
                    /\ log' = log \o <<Begin("list_sessions"), Send("sessions_get"),
                                       Recv("sessions_get")>>
                    /\ outcome' = "panic"
                    /\ pc' = "exit"
                    /\ UNCHANGED sessions_data
                 \/ /\ p.select # None
                    /\ p.select[1].name # None
                    /\ form.kind = "panic"
                    /\ log' = log \o <<Begin("list_sessions"), Send("sessions_get"),
                                       Recv("sessions_get")>>
                    /\ outcome' = "panic"
                    /\ pc' = "exit"
                    /\ UNCHANGED sessions_data
                 \/ /\ p.select # None
                    /\ p.select[1].name # None
                    /\ form.kind = "ok"
                    /\ log' = log \o <<Begin("list_sessions"), Send("sessions_get"),
                                       Recv("sessions_get"), Extract("sessions_get"),
                                       End("list_sessions")>>
                    /\ sessions_data' = [sessions |-> p.select[1].options,
                                         form_url |-> form.form_url,
                                         submit_map |-> form.form_data,
                                         session_form_name |-> p.select[1].name[1]]
                    /\ pc' = "choose_term"
                    /\ UNCHANGED outcome
  /\ UNCHANGED <<json, login_fields, login_resp_content, authenticated, selection,
                 next_form, details_doc, course_data, seasons, season, printed,
                 login_document, session_summary, parseVars, formVars>>

\* main: the term menu over sessions[1..]
ChooseTerm ==
  /\ pc = "choose_term"
  /\ \/ \* sessions[1..] of an empty Vec, no item to show, or the prompt fails
        /\ outcome' = "panic"
        /\ pc' = "exit"
        /\ log' = log \o <<Begin("choose_term")>>
        /\ UNCHANGED selection
     \/ /\ Len(sessions_data.sessions) >= 2
        /\ \E i \in 0..(Len(sessions_data.sessions) - 2) : selection' = i
        /\ log' = log \o <<Begin("choose_term"), End("choose_term")>>
        /\ pc' = "report_post1"
        /\ UNCHANGED outcome
  /\ UNCHANGED <<sent, json, login_fields, login_resp_content, authenticated,
                 sessions_data, next_form, details_doc, course_data, seasons, season,
                 printed, pagesVars, parseVars, formVars>>

\* ReportPost1 with a defect: the second POST does not wait for the answer to
\* the first and its form
ReportPost1NoExtract ==
  /\ pc = "report_post1"
  /\ sessions_data' =
       [sessions_data EXCEPT !.submit_map =
          MapInsert(@, sessions_data.session_form_name, ToString(selection))]
  /\ sent' = Append(sent, Request("report_post1", "POST", sessions_data.form_url,
                                  sessions_data'.submit_map))
  /\ log' = log \o <<Begin("fetch_report"), Send("report_post1")>>
  /\ next_form' = [form_url |-> sessions_data.form_url,
                   form_data |-> sessions_data'.submit_map]
  /\ pc' = "report_post2"
  /\ UNCHANGED <<outcome, json, login_fields, login_resp_content, authenticated,
                 selection, details_doc, course_data, seasons, season, printed,
                 pagesVars, parseVars, formVars>>

\* get_course_details, to the second POST: the session field is set, the form
\* is posted and the form of the answer extracted
ReportPost1 ==
  /\ pc = "report_post1"
  /\ sessions_data' =
       [sessions_data EXCEPT !.submit_map =
          MapInsert(@, sessions_data.session_form_name, ToString(selection))]
  /\ sent' = Append(sent, Request("report_post1", "POST", sessions_data.form_url,
                                  sessions_data'.submit_map))
  /\ \/ /\ log' = log \o <<Begin("fetch_report"), Send("report_post1"),
                           Fail("report_post1")>>
        /\ outcome' = "err"
        /\ pc' = "exit"
        /\ UNCHANGED <<next_form, session_summary>>
     \/ \E p \in SummaryPages :
          LET form == get_form_fields(p)
          IN  /\ session_summary' = Some(p)
              /\ \/ /\ form.kind = "panic"
                    /\ log' = log \o <<Begin("fetch_report"), Send("report_post1"),
                                       Recv("report_post1")>>
                    /\ outcome' = "panic"
                    /\ pc' = "exit"
                    /\ UNCHANGED next_form
                 \/ /\ form.kind = "ok"
                    /\ log' = log \o <<Begin("fetch_report"), Send("report_post1"),
                                       Recv("report_post1"), Extract("report_post1")>>
                    /\ next_form' = [form_url |-> form.form_url, form_data |-> form.form_data]
                    /\ pc' = "report_post2"
                    /\ UNCHANGED outcome
  /\ UNCHANGED <<json, login_fields, login_resp_content, authenticated, selection,
                 details_doc, course_data, seasons, season, printed, login_document, sessions_doc, parseVars, formVars>>

\* ReportPost2 with a defect: the fields of the first POST are sent along
ReportPost2CarryOver ==
  /\ pc = "report_post2"
  /\ sent' = Append(sent,
       Request("report_post2", "POST", next_form.form_url,
               [k \in DOMAIN sessions_data.submit_map \cup DOMAIN next_form.form_data |->
                  IF k \in DOMAIN next_form.form_data THEN next_form.form_data[k]
                  ELSE sessions_data.submit_map[k]]))
  /\ \/ /\ log' = log \o <<Send("report_post2"), Fail("report_post2")>>
        /\ outcome' = "err"
        /\ pc' = "exit"
        /\ UNCHANGED details_doc
     \/ \E t \in ReportTables :
          /\ log' = log \o <<Send("report_post2"), Recv("report_post2"),
                             End("fetch_report")>>
          /\ details_doc' = t
          /\ pc' = "parse_timetable"
          /\ UNCHANGED outcome
  /\ UNCHANGED <<json, login_fields, login_resp_content, authenticated, sessions_data,
                 selection, next_form, course_data, seasons, season, printed,
                 pagesVars, parseVars, formVars>>

\* get_course_details, from the second POST: the answer is the report page
ReportPost2 ==
  /\ pc = "report_post2"
  /\ sent' = Append(sent, Request("report_post2", "POST", next_form.form_url,
                                  next_form.form_data))
  /\ \/ /\ log' = log \o <<Send("report_post2"), Fail("report_post2")>>
        /\ outcome' = "err"
        /\ pc' = "exit"
        /\ UNCHANGED details_doc
     \/ \E t \in ReportTables :
          /\ log' = log \o <<Send("report_post2"), Recv("report_post2"),
                             End("fetch_report")>>
          /\ details_doc' = t
          /\ pc' = "parse_timetable"
          /\ UNCHANGED outcome
  /\ UNCHANGED <<json, login_fields, login_resp_content, authenticated, sessions_data,
                 selection, next_form, course_data, seasons, season, printed,
                 pagesVars, parseVars, formVars>>

\* main: parse_timetable(&details_doc)
ParseTimetable ==
  /\ pc = "parse_timetable"
  /\ LET parsed == parse_timetable(details_doc)
     IN  \/ /\ parsed.kind = "panic"
            /\ log' = log \o <<Begin("parse_timetable")>>
            /\ outcome' = "panic"
            /\ pc' = "exit"
            /\ UNCHANGED course_data
         \/ /\ parsed.kind = "ok"
            /\ log' = log \o <<Begin("parse_timetable"), End("parse_timetable")>>
            /\ course_data' = parsed.courses
            /\ pc' = "seasons"
            /\ UNCHANGED outcome
  /\ UNCHANGED <<sent, json, login_fields, login_resp_content, authenticated,
                 sessions_data, selection, next_form, details_doc, seasons, season,
                 printed, pagesVars, parseVars, formVars>>

\* main: the set of the first words of the course keys, "All" put in front
DeriveSeasons ==
  /\ pc = "seasons"
  /\ \/ /\ \E k \in DOMAIN course_data : FirstToken(k) = None
        /\ log' = log \o <<Begin("choose_season")>>
        /\ outcome' = "panic"
        /\ pc' = "exit"
        /\ UNCHANGED seasons
     \/ /\ \A k \in DOMAIN course_data : FirstToken(k) # None
        /\ \E order \in Orders({FirstToken(k)[1] : k \in DOMAIN course_data}) :
             seasons' = <<"All">> \o order
        /\ log' = log \o <<Begin("choose_season")>>
        /\ pc' = "choose_season"
        /\ UNCHANGED outcome
  /\ UNCHANGED <<sent, json, login_fields, login_resp_content, authenticated,
                 sessions_data, selection, next_form, details_doc, course_data, season,
                 printed, pagesVars, parseVars, formVars>>

\* ChooseSeason with a defect: a failed prompt goes on to logout
ChooseSeasonLogoutOnFailure ==
  /\ pc = "choose_season"
  /\ pc' = "logout"
  /\ UNCHANGED <<outcome, log, sent, json, login_fields, login_resp_content,
                 authenticated, sessions_data, selection, next_form, details_doc,
                 course_data, seasons, season, printed, pagesVars, parseVars, formVars>>

\* main: the season menu
ChooseSeason ==
  /\ pc = "choose_season"
  /\ \/ \* the prompt fails
        /\ outcome' = "panic"
        /\ pc' = "exit"
        /\ UNCHANGED <<season, log>>
     \/ /\ \E season_id \in 0..(Len(seasons) - 1) : season' = seasons[season_id + 1]
        /\ log' = log \o <<End("choose_season")>>
        /\ pc' = "render"
        /\ UNCHANGED outcome
  /\ UNCHANGED <<sent, json, login_fields, login_resp_content, authenticated,
                 sessions_data, selection, next_form, details_doc, course_data, seasons,
                 printed, pagesVars, parseVars, formVars>>

\* Render with a defect: the entries are written and the step then fails
RenderThenFail ==
  /\ pc = "render"
  /\ printed' = Some(course_data)
  /\ log' = log \o <<Begin("render")>>
  /\ outcome' = "err"
  /\ pc' = "exit"
  /\ UNCHANGED <<sent, json, login_fields, login_resp_content, authenticated,
                 sessions_data, selection, next_form, details_doc, course_data, seasons,
                 season, pagesVars, parseVars, formVars>>

\* main: the course data as JSON, or as a table of the chosen season's entries
Render ==
  /\ pc = "render"
  /\ \/ /\ json
        /\ \/ \* serde_json::to_string(..)? gives an error
              /\ log' = log \o <<Begin("render")>>
              /\ outcome' = "err"
              /\ pc' = "exit"
              /\ UNCHANGED printed
           \/ /\ printed' = Some(course_data)
              /\ log' = log \o <<Begin("render"), End("render")>>
              /\ pc' = "logout"
              /\ UNCHANGED outcome
     \/ /\ ~json
        /\ printed' =
             Some([c \in {k \in DOMAIN course_data :
                            ~(~StartsWith(k, season) /\ season # "All")}
                     |-> course_data[c]])
        /\ log' = log \o <<Begin("render"), End("render")>>
        /\ pc' = "logout"
        /\ UNCHANGED outcome
  /\ UNCHANGED <<sent, json, login_fields, login_resp_content, authenticated,
                 sessions_data, selection, next_form, details_doc, course_data, seasons,
                 season, pagesVars, parseVars, formVars>>

\* logout, and main's Ok(())
Logout ==
  /\ pc = "logout"
  /\ sent' = Append(sent, Request("logout_get", "GET", LOGOUT_PAGE, EmptyMap))
  /\ pc' = "exit"
  /\ \/ /\ log' = log \o <<Begin("logout"), Send("logout_get"), Fail("logout_get")>>
        /\ outcome' = "err"
     \/ /\ log' = log \o <<Begin("logout"), Send("logout_get"), Recv("logout_get"),
                           End("logout")>>
        /\ outcome' = "ok"
  /\ UNCHANGED <<json, login_fields, login_resp_content, authenticated, sessions_data,
                 selection, next_form, details_doc, course_data, seasons, season,
                 printed, pagesVars, parseVars, formVars>>

NextRun ==
  \/ AuthGet
  \/ AuthPost
  \/ CheckAuthenticated
  \/ ParseSessionsPage
  \/ ChooseTerm
  \/ ReportPost1
  \/ ReportPost2
  \/ ParseTimetable
  \/ DeriveSeasons
  \/ ChooseSeason
  \/ Render
  \/ Logout

-----------------------------------------------------------------------------
(* The specifications *)

Init == InitRun /\ IdleParse /\ IdleForm

Spec == Init /\ [][NextRun]_vars

InitSpecParse == InitParse /\ IdleForm /\ IdleRun

SpecParse == InitSpecParse /\ [][NextParse]_vars

InitSpecForm == InitForm /\ IdleParse /\ IdleRun

SpecForm == InitSpecForm /\ [][NextForm]_vars

-----------------------------------------------------------------------------
(* Properties of parse_timetable, checked under SpecParse *)

InLoop == ppc \in {"loop", "done"}

\* The test at the head of the loop body that makes the loop continue
Skipped(row) == Len(row) < 4 \/ row[3] = "" \/ row[4] = ""

\* The rows consumed so far that were not skipped (row 1 is the header)
Kept == {r \in 2..Len(data) : r <= idx /\ ~Skipped(data[r])}

\* The text of column col in the latest kept row at or above r where it is
\* non-empty; the empty string when there is no such row
LabelAt(r, col) ==
  LET S == {q \in Kept : q <= r /\ data[q][col] # ""}
  IN  IF S = {} THEN "" ELSE data[Max(S)][col]

LoopState == [course |-> course, format |-> format, courses |-> courses]

\* C1: every stored CourseTime came from a kept data row r and is filed under
\* courses[c][f] with c, f the latest non-empty column-0 and column-1 texts of
\* the kept rows at or above r; and every kept row is filed so.
C1_CarryForward ==
  InLoop =>
    /\ \A c \in DOMAIN courses : \A f \in DOMAIN courses[c] :
         \A k \in 1..Len(courses[c][f]) :
           \E r \in Kept : /\ LabelAt(r, 1) = c
                           /\ LabelAt(r, 2) = f
                           /\ courses[c][f][k] = NewCourseTime(data[r])
    /\ \A r \in Kept :
         /\ LabelAt(r, 1) \in DOMAIN courses
         /\ LabelAt(r, 2) \in DOMAIN courses[LabelAt(r, 1)]
         /\ \E k \in 1..Len(courses[LabelAt(r, 1)][LabelAt(r, 2)]) :
              courses[LabelAt(r, 1)][LabelAt(r, 2)][k] = NewCourseTime(data[r])

\* A finished parse in which a row with both labels blank was filed under
\* labels carried from rows above it
C1_Witness ==
  /\ ppc = "done"
  /\ \E r \in Kept : /\ data[r][1] = "" /\ data[r][2] = ""
                     /\ LabelAt(r, 1) # "" /\ LabelAt(r, 2) # ""
                     /\ LabelAt(r, 1) \in DOMAIN courses

\* The consumed rows with the skipped data rows removed, the header in place
WithoutSkipped ==
  IF data = <<>> THEN <<>>
  ELSE <<data[1]>> \o SelectSeq(SubSeq(data, 2, idx), LAMBDA row : ~Skipped(row))

\* C2: a skipped row adds no CourseTime and leaves the carried course and
\* format as they were, whatever its columns 0 and 1 hold; the loop's state
\* equals the state reached on the same rows with the skipped ones removed.
C2_SkippedRowsNoEffect ==
  InLoop =>
    /\ LoopState = FoldRows(LoopStart, WithoutSkipped, 2)
    /\ (idx >= 2 /\ idx <= Len(data) /\ Skipped(data[idx])) =>
         LoopState = FoldRows(LoopStart, SubSeq(data, 1, idx - 1), 2)

\* A finished parse with a skipped row that has a course label other than the
\* carried one, followed by a kept row with a blank course label
C2_Witness ==
  /\ ppc = "done"
  /\ \E r \in 2..Len(data) :
       /\ Skipped(data[r])
       /\ Len(data[r]) >= 2 /\ data[r][1] # "" /\ data[r][2] # ""
       /\ \E q \in Kept : /\ q > r
                          /\ data[q][1] = "" /\ data[q][2] = ""
                          /\ LabelAt(q, 1) # data[r][1]
                          /\ LabelAt(q, 2) # data[r][2]
                          /\ LabelAt(q, 1) # ""

ExampleRows ==
  << <<"CS101", "Lecture", "Mon 10:00", "50min">>,
     <<"", "Lab", "Tue 14:00", "80min">>,
     <<"CS102", "", "Wed 9:00", "50min">> >>

ExampleCourses ==
  ("CS101" :> ("Lecture" :> <<[day_time |-> "Mon 10:00", duration |-> "50min"]>>
               @@ "Lab" :> <<[day_time |-> "Tue 14:00", duration |-> "80min"]>>))
  @@ ("CS102" :> ("Lab" :> <<[day_time |-> "Wed 9:00", duration |-> "50min"]>>))

\* C3: the carried format label is not reset when the course label changes: a
\* kept row with a new course label and a blank format label is filed under
\* the new course with the format carried from above; the three example rows
\* after a header give exactly the example result.
C3_FormatCarriesAcrossCourses ==
  /\ (InLoop /\ idx >= 2 /\ idx <= Len(data) /\ ~Skipped(data[idx])
        /\ data[idx][1] # "" /\ data[idx][2] = "") =>
       LET before == {q \in Kept : q < idx /\ data[q][2] # ""}
       IN  /\ course = data[idx][1]
           /\ format = IF before = {} THEN "" ELSE data[Max(before)][2]
           /\ course \in DOMAIN courses
           /\ format \in DOMAIN courses[course]
           /\ Last(courses[course][format]) = NewCourseTime(data[idx])
  /\ (ppc = "done" /\ Len(data) = 4 /\ SubSeq(data, 2, 4) = ExampleRows) =>
       courses = ExampleCourses

\* The example table has been parsed: its last row changes the course label
\* and leaves the format blank
C3_Witness ==
  /\ ppc = "done"
  /\ Len(data) = 4
  /\ SubSeq(data, 2, 4) = ExampleRows
  /\ course = "CS102"
  /\ format = "Lab"

-----------------------------------------------------------------------------
(* Properties of get_form_fields, checked under SpecForm *)

DocElements == Elements(doc)

FormPositions == {i \in 1..Len(DocElements) : IsForm(DocElements[i])}

FieldPositions == {i \in 1..Len(DocElements) : IsSubmitOrHidden(DocElements[i])}

\* C9: on a document with several forms, the returned target is the action of
\* the last form in document order; the returned keys are exactly the names of
\* the hidden and submit inputs anywhere in the document, each with the value
\* of such an input, copied unchanged (of the last one of that name); inputs
\* of any other type give no key.
C9_LastFormAllFields ==
  fpc = "returned" =>
    /\ form_result.kind = "ok"
    /\ FormPositions # {}
    /\ Some(form_result.form_url) = DocElements[Max(FormPositions)].action
    /\ DOMAIN form_result.form_data =
         {DocElements[i].name[1] : i \in FieldPositions}
    /\ \A n \in DOMAIN form_result.form_data :
         \E i \in FieldPositions : /\ DocElements[i].name = Some(n)
                                   /\ DocElements[i].value = Some(form_result.form_data[n])
    /\ \A i \in FieldPositions :
         (\A j \in FieldPositions : j > i => DocElements[j].name # DocElements[i].name)
           => form_result.form_data[DocElements[i].name[1]] = DocElements[i].value[1]

\* get_form_fields returned on a document whose last form has target /T and
\* the fields a and b, after a decoy form with another target that holds an
\* input of another type
C9_Witness ==
  /\ fpc = "returned"
  /\ Len(doc) >= 2
  /\ doc[Len(doc)] = Form(Some("/T"), <<HiddenA1, SubmitB2>>)
  /\ \E i \in 1..(Len(doc) - 1) : doc[i] = Form(Some("/decoy"), <<TextC3>>)
  /\ form_result.form_url = "/T"
  /\ DOMAIN form_result.form_data = {"a", "b"}

\* What the extractor needs of a page and does not find
Malformed(d) ==
  LET es == Elements(d)
      forms == {i \in 1..Len(es) : IsForm(es[i])}
  IN  \/ forms = {}
      \/ es[Max(forms)].action = None
      \/ \E i \in 1..Len(es) :
           IsSubmitOrHidden(es[i]) /\ (es[i].name = None \/ es[i].value = None)

\* C10: on a document with no form, whose last form has no action, or with a
\* hidden or submit input that lacks a name or a value, get_form_fields gives
\* its caller an error value (Err), an outcome apart from a panic.
C10_MalformedPageIsErr ==
  (fpc # "call" /\ Malformed(doc)) => form_result.kind = "err"

-----------------------------------------------------------------------------
(* Properties of the run, checked under Spec *)

Occurs(e) == \E i \in DOMAIN log : log[i] = e

Count(e) == Cardinality({i \in DOMAIN log : log[i] = e})

Before(e1, e2) ==
  \E i, j \in DOMAIN log : i < j /\ log[i] = e1 /\ log[j] = e2

\* The log of a run in which nothing fails
FullLog ==
  <<Begin("authenticate"), Send("auth_get"), Recv("auth_get"),
    Send("login_post"), Recv("login_post"), End("authenticate"),
    Begin("list_sessions"), Send("sessions_get"), Recv("sessions_get"),
    Extract("sessions_get"), End("list_sessions"),
    Begin("choose_term"), End("choose_term"),
    Begin("fetch_report"), Send("report_post1"), Recv("report_post1"),
    Extract("report_post1"), Send("report_post2"), Recv("report_post2"),
    End("fetch_report"),
    Begin("parse_timetable"), End("parse_timetable"),
    Begin("choose_season"), End("choose_season"),
    Begin("render"), End("render"),
    Begin("logout"), Send("logout_get"), Recv("logout_get"), End("logout")>>

FiveSteps ==
  <<"authenticate", "list_sessions", "fetch_report", "parse_timetable", "logout">>

RequestNames ==
  {"auth_get", "login_post", "sessions_get", "report_post1", "report_post2",
   "logout_get"}

\* C4: the five steps occur in the order authenticate, list_sessions,
\* fetch_report, parse_timetable, logout; a step begins only after the one
\* before it has ended (authenticate with true); no step begins twice; the
\* second report POST is sent only after the answer to the first has been
\* received and its form extracted.
C4_StepOrder ==
  /\ \A s \in 2..Len(FiveSteps) :
       Occurs(Begin(FiveSteps[s])) =>
         Before(End(FiveSteps[s - 1]), Begin(FiveSteps[s]))
  /\ \A s \in 1..Len(FiveSteps) :
       /\ Count(Begin(FiveSteps[s])) <= 1
       /\ Count(End(FiveSteps[s])) <= 1
       /\ Occurs(End(FiveSteps[s])) => Before(Begin(FiveSteps[s]), End(FiveSteps[s]))
  /\ Occurs(Begin("list_sessions")) => authenticated = Some(TRUE)
  /\ Occurs(Send("report_post2")) =>
       /\ Before(Send("report_post1"), Recv("report_post1"))
       /\ Before(Recv("report_post1"), Extract("report_post1"))
       /\ Before(Extract("report_post1"), Send("report_post2"))
  /\ \E n \in 0..Len(FullLog) :
       SelectSeq(log, LAMBDA e : e.ev # "fail") = SubSeq(FullLog, 1, n)

\* A run that went through every step
C4_Witness ==
  /\ pc = "exit"
  /\ outcome = "ok"
  /\ log = FullLog
  /\ Len(sent) = 6

\* C5: when the answer to the login POST does not contain the confirmation
\* phrase, auth returns false as a value and the run sends no request after
\* the login POST.
C5_RejectedStopsRun ==
  (login_resp_content # None /\ ~Contains(login_resp_content[1], ConfirmationPhrase)) =>
    /\ authenticated = Some(FALSE)
    /\ outcome # "err"
    /\ Len(sent) = 2
    /\ Last(sent).name = "login_post"
    /\ ~Occurs(Begin("list_sessions"))
    /\ pc \in {"check_auth", "exit"}

\* The run has ended after a login answer without the phrase
C5_Witness ==
  /\ pc = "exit"
  /\ login_resp_content = Some("<p>Login failed</p>")
  /\ authenticated = Some(FALSE)
  /\ outcome = "panic"

\* C6, as claimed: a run ends either with every step through logout done and
\* the course data written, or with an error and no course data written.
C6_NoPartialSuccess ==
  pc = "exit" =>
    \/ outcome = "ok" /\ printed # None /\ Occurs(End("logout"))
    \/ outcome \in {"err", "panic"} /\ printed = None

\* C6, amended: a run ends with every step through logout done and the course
\* data written, or with an error before the course data are written, or with
\* the course data written and the logout request failed.
C6_PartialOnlyWhenLogoutFails ==
  /\ printed # None => Occurs(End("render"))
  /\ pc = "exit" =>
       \/ outcome = "ok" /\ printed # None /\ log = FullLog
       \/ outcome \in {"err", "panic"} /\ printed = None /\ ~Occurs(Begin("logout"))
       \/ outcome = "err" /\ printed # None /\ Last(log) = Fail("logout_get")

\* The course data were written and the run ended with the logout request's
\* transport error
C6_Witness ==
  /\ pc = "exit"
  /\ outcome = "err"
  /\ printed # None
  /\ DOMAIN printed[1] # {}
  /\ Last(log) = Fail("logout_get")

AllBeforeLogoutDone ==
  /\ authenticated = Some(TRUE)
  /\ Occurs(End("list_sessions"))
  /\ Occurs(End("choose_term"))
  /\ Occurs(End("fetch_report"))
  /\ Occurs(End("parse_timetable"))
  /\ Occurs(End("choose_season"))
  /\ Occurs(End("render"))

LogoutsSent == {i \in DOMAIN sent : sent[i].name = "logout_get"}

\* C7: the logout request is sent if and only if auth returned true and
\* list_sessions, the term selection, fetch_report, parse_timetable, the
\* season selection and the rendering all ended without failure; a run that
\* fails before ends without a logout request; logout is sent at most once.
C7_LogoutIffAllSucceeded ==
  /\ LogoutsSent # {} => AllBeforeLogoutDone
  /\ (pc = "exit" /\ AllBeforeLogoutDone) => LogoutsSent # {}
  /\ (pc = "exit" /\ ~AllBeforeLogoutDone) =>
       /\ outcome \in {"err", "panic"}
       /\ LogoutsSent = {}
       /\ ~Occurs(Send("logout_get"))
  /\ Cardinality(LogoutsSent) <= 1
  /\ Count(Send("logout_get")) = Cardinality(LogoutsSent)

\* An authenticated run that failed after fetch_report and ended without a
\* logout request
C7_Witness ==
  /\ pc = "exit"
  /\ authenticated = Some(TRUE)
  /\ Occurs(End("parse_timetable"))
  /\ outcome = "panic"
  /\ LogoutsSent = {}

\* C8: each of the six requests is sent at most once; after a transport error
\* on a request no request follows and the run ends with main returning Err.
C8_NoRetry ==
  /\ \A i \in DOMAIN sent : sent[i].name \in RequestNames
  /\ \A i, j \in DOMAIN sent : sent[i].name = sent[j].name => i = j
  /\ \A r \in RequestNames : Count(Send(r)) <= 1
  /\ \A i \in DOMAIN log :
       log[i].ev = "fail" =>
         /\ i = Len(log)
         /\ Last(sent).name = log[i].of
         /\ outcome = "err"
         /\ pc = "exit"

\* The run ended with a transport error on the second report POST
C8_Witness ==
  /\ pc = "exit"
  /\ outcome = "err"
  /\ Last(log) = Fail("report_post2")
  /\ Len(sent) = 5

-----------------------------------------------------------------------------
(* Properties of the forms the run posts, checked under Spec *)

SeededKeys == {"mli", "password", "dologin"}

\* The positions of the hidden inputs of the login page, in document order
LoginHidden ==
  {i \in 1..Len(Elements(login_document[1])) :
     LET e == Elements(login_document[1])[i]
     IN  e.tag = "input" /\ e.type = Some("hidden")}

LoginPosts == {i \in DOMAIN sent : sent[i].name = "login_post"}

\* C11: the fields posted to the login endpoint are the three seeded keys and
\* every hidden field of the login page; a seeded key keeps its seeded value
\* unless a hidden field has its name, and then the hidden field's value is
\* sent; no seeded key is absent.
C11_LoginFieldsOverlay ==
  \A i \in LoginPosts :
    LET es == Elements(login_document[1])
        f == sent[i].form
    IN  /\ sent[i].url = LOGIN_PAGE
        /\ SeededKeys \subseteq DOMAIN f
        /\ DOMAIN f = SeededKeys \cup {es[h].name[1] : h \in LoginHidden}
        /\ \A h \in LoginHidden :
             (\A g \in LoginHidden : g > h => es[g].name # es[h].name)
               => f[es[h].name[1]] = es[h].value[1]
        /\ \A k \in SeededKeys :
             (\A h \in LoginHidden : es[h].name # Some(k)) =>
               f[k] = (CASE k = "mli" -> Username
                         [] k = "password" -> Password
                         [] k = "dologin" -> "Login")

\* The login POST was sent for a page with a hidden field named like the
\* seeded login id, with another value, and a hidden field of its own name
C11_Witness ==
  /\ LoginPosts # {}
  /\ \E h \in LoginHidden :
       /\ Elements(login_document[1])[h].name = Some("mli")
       /\ Elements(login_document[1])[h].value # Some(Username)
  /\ \A i \in LoginPosts :
       /\ sent[i].form["mli"] = "other"
       /\ sent[i].form["password"] = Password
       /\ "token" \in DOMAIN sent[i].form


FirstReportPosts == {i \in DOMAIN sent : sent[i].name = "report_post1"}

SecondReportPosts == {i \in DOMAIN sent : sent[i].name = "report_post2"}

\* C12: the first report POST goes to the form url of the sessions page with
\* every submit field of that page unchanged, except that the session field
\* holds the term id as a decimal string, whatever the page gave under that
\* name; the second goes to the target extracted from the first answer with
\* exactly the fields extracted from it, none of the first POST's fields.
C12_ReportPostFields ==
  /\ \A i \in FirstReportPosts :
       LET base == get_form_fields(sessions_doc[1].elems)
           field == sessions_doc[1].select[1].name[1]
           f == sent[i].form
       IN  /\ sent[i].method = "POST"
           /\ sent[i].url = base.form_url
           /\ DOMAIN f = DOMAIN base.form_data \cup {field}
           /\ selection \in 0..(Len(sessions_doc[1].select[1].options) - 2)
           /\ f[field] = (CASE selection = 0 -> "0"
                            [] selection = 1 -> "1"
                            [] OTHER -> "?")
           /\ \A k \in DOMAIN base.form_data : k # field => f[k] = base.form_data[k]
  /\ \A j \in SecondReportPosts :
       LET es == Elements(session_summary[1])
           forms == {i \in 1..Len(es) : IsForm(es[i])}
           fields == {i \in 1..Len(es) : IsSubmitOrHidden(es[i])}
           f == sent[j].form
       IN  /\ sent[j].method = "POST"
           /\ Some(sent[j].url) = es[Max(forms)].action
           /\ DOMAIN f = {es[i].name[1] : i \in fields}
           /\ \A i \in fields :
                (\A g \in fields : g > i => es[g].name # es[i].name)
                  => f[es[i].name[1]] = es[i].value[1]

\* Both report POSTs were sent, for a sessions page that holds a field named
\* like the session field, and the summary page has no such field
C12_Witness ==
  /\ SecondReportPosts # {}
  /\ selection = 1
  /\ get_form_fields(sessions_doc[1].elems).form_data["session"] = "old"
  /\ \A i \in FirstReportPosts :
       sent[i].form = ("session" :> "1") @@ ("go" :> "Continue")
  /\ \A j \in SecondReportPosts :
       /\ sent[j].url = "/rem/report"
       /\ sent[j].form = ("wosid" :> "s2") @@ ("show" :> "Report")


(* Properties of the output and of the season derivation, checked under Spec *)

\* the entries of the course map that the chosen season selects
SeasonEntries ==
  LET keep == IF season = "All" THEN DOMAIN course_data
              ELSE {k \in DOMAIN course_data : StartsWith(k, season)}
  IN  [c \in keep |-> course_data[c]]

\* C13: whatever is printed, table or JSON, holds exactly the course entries
\* whose key starts with the chosen season, and every entry when the chosen
\* season is "All".
C13_OutputIsSeasonFiltered ==
  printed # None => printed = Some(SeasonEntries)


(* Further properties of parse_timetable, checked under SpecParse *)

\* The kept rows filed under course c and format f
Contributing(c, f) == {r \in Kept : LabelAt(r, 1) = c /\ LabelAt(r, 2) = f}

\* The members of a set of row numbers, top to bottom
RECURSIVE TopToBottom(_)
TopToBottom(S) ==
  IF S = {} THEN <<>> ELSE <<Min(S)>> \o TopToBottom(S \ {Min(S)})

\* C14: courses[c][f] is the sequence of the CourseTimes of the rows filed
\* under c and f, in the rows' top-to-bottom order, also when rows of another
\* course or format lie between them; the keys are exactly the labels that
\* have such rows.
C14_ReportOrderKept ==
  InLoop =>
    /\ DOMAIN courses = {LabelAt(r, 1) : r \in Kept}
    /\ \A c \in DOMAIN courses :
         /\ DOMAIN courses[c] = {LabelAt(r, 2) : r \in {q \in Kept : LabelAt(q, 1) = c}}
         /\ \A f \in DOMAIN courses[c] :
              LET rows == TopToBottom(Contributing(c, f))
              IN  courses[c][f] = [k \in 1..Len(rows) |-> NewCourseTime(data[rows[k]])]

\* A finished parse in which two rows with different times are filed under
\* the same course and format and a row of another format lies between them
C14_Witness ==
  /\ ppc = "done"
  /\ \E c \in DOMAIN courses : \E f \in DOMAIN courses[c] :
       \E r1, r3 \in Contributing(c, f) : \E r2 \in Kept :
         /\ r1 < r2 /\ r2 < r3
         /\ r2 \notin Contributing(c, f)
         /\ NewCourseTime(data[r1]) # NewCourseTime(data[r3])
         /\ Len(courses[c][f]) = 2
         /\ courses[c][f][1] = NewCourseTime(data[r1])


\* The kept rows at or above which no kept row has text in column col
Unlabelled(col) == {r \in Kept : \A q \in Kept : q <= r => data[q][col] = ""}

\* the CourseTimes of a sequence
Range(s) == {s[k] : k \in DOMAIN s}

\* C15: a kept row with no course label at or above it is stored under the
\* course key "", and one with no format label at or above it under the format
\* key "", each label on its own; the parse does not fail on such rows.
C15_UnlabelledRowsUseEmptyKeys ==
  /\ InLoop =>
       /\ \A r \in Unlabelled(1) :
            /\ "" \in DOMAIN courses
            /\ \E f \in DOMAIN courses[""] :
                 /\ NewCourseTime(data[r]) \in Range(courses[""][f])
                 /\ f = LabelAt(r, 2)
       /\ \A r \in Unlabelled(2) :
            \E c \in DOMAIN courses :
              /\ c = LabelAt(r, 1)
              /\ "" \in DOMAIN courses[c]
              /\ NewCourseTime(data[r]) \in Range(courses[c][""])
  /\ page_table # None =>
       /\ ppc # "panic"
       /\ parse_timetable(page_table).kind = "ok"
       /\ ppc = "done" => courses = parse_timetable(page_table).courses

\* A finished parse that stored one row under the course "" and a later one
\* under a course label with the format ""
C15_Witness ==
  /\ ppc = "done"
  /\ Unlabelled(1) # {}
  /\ \E r \in Unlabelled(2) : LabelAt(r, 1) # ""
  /\ "" \in DOMAIN courses
  /\ \E c \in DOMAIN courses : c # "" /\ "" \in DOMAIN courses[c]


(* A further property of get_form_fields, checked under SpecForm *)

\* The positions of the hidden and submit inputs named n
Named(n) == {i \in FieldPositions : DocElements[i].name = Some(n)}

\* The names that two or more hidden or submit inputs share
SharedNames ==
  {DocElements[i].name[1] :
     i \in {p \in FieldPositions :
              /\ DocElements[p].name # None
              /\ \E q \in FieldPositions \ {p} : DocElements[q].name = DocElements[p].name}}

\* C16: when get_form_fields returns, every name shared by two or more hidden
\* or submit inputs is a key of the returned mapping, and its value is that of
\* the last such input in document order.
C16_DuplicateNamesLastWins ==
  fpc = "returned" =>
    \A n \in SharedNames :
      /\ n \in DOMAIN form_result.form_data
      /\ Some(form_result.form_data[n]) = DocElements[Max(Named(n))].value

\* get_form_fields returned on a document where the name a is given twice with
\* different values, and the returned value is the later one
C16_Witness ==
  /\ fpc = "returned"
  /\ \E n \in SharedNames :
       /\ DocElements[Min(Named(n))].value # DocElements[Max(Named(n))].value
       /\ Some(form_result.form_data[n]) # DocElements[Min(Named(n))].value


(* Properties of the first row and of the map's shape, checked under SpecParse *)

\* The rows below the first row that the loop has consumed
RowsBelowFirst == IF idx < 2 THEN <<>> ELSE SubSeq(data, 2, idx)

\* C17: the first row of the table is never processed: while only it has been
\* passed the loop's state is the initial one, the state equals that reached
\* on the rows below it alone, also when the first row has four non-empty
\* cells; a table of zero or one row gives an empty course map.
C17_FirstRowIgnored ==
  /\ InLoop =>
       /\ idx <= 1 => LoopState = LoopStart
       /\ LoopState = FoldRows(LoopStart, RowsBelowFirst, 1)
       /\ (ppc = "done" /\ Len(data) <= 1) => courses = EmptyMap
  /\ parse_timetable(Some(<<>>)) = [kind |-> "ok", courses |-> EmptyMap]
  /\ \A h \in HeaderRows :
       parse_timetable(Some(<<h>>)) = [kind |-> "ok", courses |-> EmptyMap]

\* A finished parse of a table whose first row has four non-empty cells and
\* whose second row, with blank labels, was filed under "" and not under the
\* first row's labels
C17_Witness ==
  /\ ppc = "done"
  /\ Len(data) >= 2
  /\ ~Skipped(data[1])
  /\ data[1][1] # "" /\ data[1][2] # ""
  /\ 2 \in Kept
  /\ data[2][1] = "" /\ data[2][2] = ""
  /\ "" \in DOMAIN courses
  /\ data[1][1] \notin DOMAIN courses


\* C18: whatever course map parse_timetable has returned, the key "" included,
\* the season derivation that follows accepts it: once it has run, the season
\* list exists, headed by "All", for the season selection to offer.
C18_SeasonDerivationAccepts ==
  (Occurs(End("parse_timetable")) /\ Occurs(Begin("choose_season"))) =>
    /\ seasons # <<>>
    /\ Head(seasons) = "All"


\* The places of the course map that hold a CourseTime
Slots ==
  UNION {UNION {{<<c, f, k>> : k \in 1..Len(courses[c][f])} : f \in DOMAIN courses[c]}
           : c \in DOMAIN courses}

\* C19: after any number of rows every course of the map has a format, every
\* format a non-empty sequence, every stored CourseTime a non-empty day_time
\* and duration, and the CourseTimes stored are as many as the rows below the
\* first that have four cells or more and text in columns 2 and 3.
C19_NoEmptyContainer ==
  InLoop =>
    /\ \A c \in DOMAIN courses :
         /\ DOMAIN courses[c] # {}
         /\ \A f \in DOMAIN courses[c] :
              /\ courses[c][f] # <<>>
              /\ \A k \in 1..Len(courses[c][f]) :
                   /\ courses[c][f][k].day_time # ""
                   /\ courses[c][f][k].duration # ""
    /\ Cardinality(Slots) =
         Cardinality({r \in 2..idx : /\ r <= Len(data)
                                     /\ Len(data[r]) >= 4
                                     /\ data[r][3] # ""
                                     /\ data[r][4] # ""})

\* A finished parse of a table with two stored rows under different courses
\* and a row of four cells that was skipped for an empty column
C19_Witness ==
  /\ ppc = "done"
  /\ Cardinality(Slots) = 2
  /\ Cardinality(DOMAIN courses) = 2
  /\ \E r \in 2..Len(data) :
       Len(data[r]) >= 4 /\ (data[r][3] = "" \/ data[r][4] = "")

=============================================================================
